---- MODULE Spec2Model ----
(***************************************************************************)
(* A model of aiopmtiles/io.py: the FileSystem classes that serve byte     *)
(* ranges of a PMTiles archive from a local file, an HTTP(S) URL, an S3    *)
(* object (generic or the Atlas deployment) or a GCS object.               *)
(*                                                                         *)
(* Text (location strings, range values, error messages) is a sequence of  *)
(* one-character strings, so that urlparse, str.strip and the f-strings    *)
(* are computed character by character.  Bytes are numbers 0..255.         *)
(***************************************************************************)
EXTENDS Integers, Sequences, FiniteSets, TLC

\* ------------------------------------------------------------------ bounds

\* Size in bytes of the archive behind every location.
FileSize == 2
\* Largest length argument of get.
MaxLength == 1
\* An offset far past the end of the archive; FarOffset + MaxLength has one
\* digit more than FarOffset.
FarOffset == 9
\* How many times __aenter__, __aexit__ and get together are called on the
\* handle (Spec), and __aenter__ and __aexit__ on their own (Lifecycle).
MaxCalls == 4
MaxLifecycle == 4
\* The same for the handles of the object store (Objects).
MaxObjectCalls == 3

\* The callers that may have a get in flight at the same time.
Tasks == {"t1", "t2"}

\* A new call takes the first caller that has no get in flight.
Earlier(u, t) == u = "t1" /\ t = "t2"

Offsets == {0, FileSize - 1, FileSize, FarOffset}
Lengths == 0 .. MaxLength

\* The archive's bytes: position p (0-based) holds Data[p + 1].
Data == [i \in 1 .. FileSize |-> (17 * i + 3) % 256]

\* -------------------------------------------------------------------- text

UpperChars == <<"A","B","C","D","E","F","G","H","I","J","K","L","M",
                "N","O","P","Q","R","S","T","U","V","W","X","Y","Z">>
LowerChars == <<"a","b","c","d","e","f","g","h","i","j","k","l","m",
                "n","o","p","q","r","s","t","u","v","w","x","y","z">>
DigitChars == <<"0","1","2","3","4","5","6","7","8","9">>

Range(s) == {s[i] : i \in DOMAIN s}

IsAlpha(c) == c \in Range(UpperChars) \cup Range(LowerChars)

\* urllib.parse.scheme_chars
scheme_chars == Range(UpperChars) \cup Range(LowerChars) \cup Range(DigitChars)
                \cup {"+", "-", "."}

\* str.lower, one character
LowerChar(c) ==
    IF c \in Range(UpperChars)
    THEN LowerChars[CHOOSE i \in DOMAIN UpperChars : UpperChars[i] = c]
    ELSE c

lower(s) == [i \in DOMAIN s |-> LowerChar(s[i])]

\* str.find for a set of characters, from 1-based position start: the first
\* position holding one of them, or 0
FindAny(s, cs, start) ==
    IF \E i \in start .. Len(s) : s[i] \in cs
    THEN CHOOSE i \in start .. Len(s) :
             /\ s[i] \in cs
             /\ \A j \in start .. (i - 1) : s[j] \notin cs
    ELSE 0

\* s[a:] of Python, a 0-based
Tail0(s, a) == SubSeq(s, a + 1, Len(s))

\* the x in y test of Python on strings: sub occurs in s as a substring
Contains(s, sub) ==
    \E i \in 1 .. (Len(s) - Len(sub) + 1) : SubSeq(s, i, i + Len(sub) - 1) = sub

\* str.strip(chars)
RECURSIVE lstrip(_, _)
lstrip(s, cs) == IF s # <<>> /\ Head(s) \in cs THEN lstrip(Tail(s), cs) ELSE s

RECURSIVE rstrip(_, _)
rstrip(s, cs) ==
    IF s # <<>> /\ s[Len(s)] \in cs THEN rstrip(SubSeq(s, 1, Len(s) - 1), cs) ELSE s

strip(s, cs) == rstrip(lstrip(s, cs), cs)

\* str(n) for n >= 0
RECURSIVE str(_)
str(n) == IF n < 10 THEN <<DigitChars[n + 1]>>
          ELSE str(n \div 10) \o <<DigitChars[(n % 10) + 1]>>

\* ---------------------------------------------------------------- urlparse

\* urllib.parse.urlparse(url), the parts io.py reads: scheme, netloc, path.
\* The scheme is the text before the first ":" when that text starts with a
\* letter and holds scheme characters only, lowercased; the netloc follows a
\* leading "//" up to the next "/", "?" or "#"; the path ends at the first
\* "#" or "?".
urlparse(url) ==
    LET i     == FindAny(url, {":"}, 1)
        isSch == /\ i > 1
                 /\ IsAlpha(url[1])
                 /\ \A j \in 1 .. (i - 1) : url[j] \in scheme_chars
        sch   == IF isSch THEN lower(SubSeq(url, 1, i - 1)) ELSE <<>>
        rest  == IF isSch THEN Tail0(url, i) ELSE url
        hasNl == Len(rest) >= 2 /\ SubSeq(rest, 1, 2) = <<"/", "/">>
        d     == FindAny(rest, {"/", "?", "#"}, 3)
        delim == IF d = 0 THEN Len(rest) + 1 ELSE d
        nl    == IF hasNl THEN SubSeq(rest, 3, delim - 1) ELSE <<>>
        rest2 == IF hasNl THEN Tail0(rest, delim - 1) ELSE rest
        q     == FindAny(rest2, {"?", "#"}, 1)
        pth   == IF q = 0 THEN rest2 ELSE SubSeq(rest2, 1, q - 1)
    IN  [scheme |-> sch, netloc |-> nl, path |-> pth]

\* ------------------------------------------------------------ text constants

http  == <<"h","t","t","p">>
https == <<"h","t","t","p","s">>
s3    == <<"s","3">>
atlas == <<"a","t","l","a","s">>
gs    == <<"g","s">>
file  == <<"f","i","l","e">>

\* The location strings create_from_filepath is called with:
\*   http://h/a
\*   https://h/a
\*   s3://b/k.e
\*   atlas://x/k
\*   atlas://y/k
\*   gs://b/k
\*   file:///a
\*   /a
\*   a
\*   ftp://h/a
\*   C:/a
\*   Gs://b/k
\*   s3+x://b/k
\*   1://a
Locations == {
    <<"h","t","t","p",":","/","/","h","/","a">>,
    <<"h","t","t","p","s",":","/","/","h","/","a">>,
    <<"s","3",":","/","/","b","/","k",".","e">>,
    <<"a","t","l","a","s",":","/","/","x","/","k">>,
    <<"a","t","l","a","s",":","/","/","y","/","k">>,
    <<"g","s",":","/","/","b","/","k">>,
    <<"f","i","l","e",":","/","/","/","a">>,
    <<"/","a">>,
    <<"a">>,
    <<"f","t","p",":","/","/","h","/","a">>,
    <<"C",":","/","a">>,
    <<"G","s",":","/","/","b","/","k">>,
    <<"s","3","+","x",":","/","/","b","/","k">>,
    <<"1",":","/","/","a">> }

\* The locations whose handles are followed through get: one per class.
\*   http://h/a  s3://b/k.e  atlas://x/k  gs://b/k  /a
Archives == {
    <<"h","t","t","p",":","/","/","h","/","a">>,
    <<"s","3",":","/","/","b","/","k",".","e">>,
    <<"a","t","l","a","s",":","/","/","x","/","k">>,
    <<"g","s",":","/","/","b","/","k">>,
    <<"/","a">> }

IsNotSupported ==
    <<" ","i","s"," ","n","o","t"," ","s","u","p","p","o","r","t","e","d">>

\* 'aioboto3' must be installed to use S3 FileSystem
MsgAioboto3 ==
    <<"'","a","i","o","b","o","t","o","3","'"," ","m","u","s","t"," ","b","e",
      " ","i","n","s","t","a","l","l","e","d"," ","t","o"," ","u","s","e"," ",
      "S","3"," ","F","i","l","e","S","y","s","t","e","m">>

\* 'gcloud-aio-storage' must be installed to use GCS FileSystem
MsgGcloud ==
    <<"'","g","c","l","o","u","d","-","a","i","o","-","s","t","o","r","a","g",
      "e","'"," ","m","u","s","t"," ","b","e"," ","i","n","s","t","a","l","l",
      "e","d"," ","t","o"," ","u","s","e"," ","G","C","S"," ","F","i","l","e",
      "S","y","s","t","e","m">>

\* settings.IMAGE_BUCKET_NAME, the bucket of the Atlas deployment
IMAGE_BUCKET_NAME == <<"i","m","g">>

\* settings.AWS_S3_ASYNC_CLIENT, the session the process shares: an
\* aioboto3 session, whose resource("s3") makes a new resource client at
\* every call.
AWS_S3_ASYNC_CLIENT == "shared"

\* The locations of the object store's handles:
\*   s3://b/k.e  s3://b/k/  s3://b//k  atlas://x/k  atlas://y/k
ObjectLocations == {
    <<"s","3",":","/","/","b","/","k",".","e">>,
    <<"s","3",":","/","/","b","/","k","/">>,
    <<"s","3",":","/","/","b","/","/","k">>,
    <<"a","t","l","a","s",":","/","/","x","/","k">>,
    <<"a","t","l","a","s",":","/","/","y","/","k">> }

\* ------------------------------------------------------------------- state

VARIABLES
    aioboto3,    \* TRUE when "import aioboto3" succeeded (the name is not None)
    GcpStorage,  \* TRUE when gcloud.aio.storage.Storage was imported
    made,        \* the call of create_from_filepath: its argument and what it
                 \* did (nothing yet, returned a handle, raised)
    self,        \* the handle: the fields of the FileSystem object
    live,        \* the resources that are open (entered and not yet exited)
    released,    \* the resources whose __aexit__ ran, in the order it ran
    nextId,      \* the id the next resource gets
    pos,         \* the position of the file object self.file
    task,        \* per caller: the get it has in flight or last finished
    left,        \* how many calls on the handle are still to come
    phase        \* "new"; "opened": __aenter__ was called since the last
                 \* __aexit__; "closed": __aexit__ ran on an opened handle;
                 \* "closed again": it ran on a closed or a new handle

vars == <<aioboto3, GcpStorage, made, self, live, released, nextId, pos, task,
          left, phase>>

\* An attribute that was never assigned: file, client, _session, _resource,
\* _obj, _client and _bucket are dataclass fields with init=False and no
\* default, so they do not exist before __aenter__ assigns them.
NoRes    == [id |-> 0, type |-> "unset"]
UnsetStr == <<"<unset>">>
NoObj    == [res |-> NoRes, bucket |-> UnsetStr, key |-> UnsetStr]

NoHandle ==
    [cls |-> "none", filepath |-> <<>>, request_payer |-> FALSE, ctx |-> <<>>,
     file |-> NoRes, client |-> NoRes, _session |-> "unset", _resource |-> NoRes,
     _obj |-> NoObj, _client |-> NoRes, _bucket |-> UnsetStr, _objname |-> UnsetStr]

NoResult == [kind |-> "none", bytes |-> <<>>, exc |-> "none"]
NoReq    == [to |-> "none", range |-> <<>>, payer |-> FALSE,
             bucket |-> <<>>, key |-> <<>>]
NoResp   == [status |-> 0, body |-> <<>>]

\* A caller's record: where its get stands (idle; seeked: between the seek and
\* the read of LocalFileSystem.get; awaiting: the request is with the backend),
\* the arguments, the request it sent and how many reads it issued, the
\* response it got and the result of the call.  called, wasOpen, steady and
\* alone are history: get was called; the handle was open then; no __aenter__
\* or __aexit__ ran during the call; no other get was in flight during it.
IdleTask == [pc |-> "idle", offset |-> 0, length |-> 0, sent |-> 0,
             req |-> NoReq, resp |-> NoResp, called |-> FALSE,
             wasOpen |-> FALSE, steady |-> FALSE, alone |-> FALSE,
             result |-> NoResult]

\* No handle yet, nothing open, no call made.
Fresh ==
    /\ made = [status |-> "none", filepath |-> <<>>, cls |-> "none",
               exc |-> "none", msg |-> <<>>]
    /\ self = NoHandle
    /\ live = {}
    /\ released = <<>>
    /\ nextId = 1
    /\ pos = 0
    /\ task = [t \in Tasks |-> IdleTask]
    /\ phase = "new"

\* The state after the module was imported, whatever libraries are installed.
Imported ==
    /\ aioboto3 \in BOOLEAN
    /\ GcpStorage \in BOOLEAN
    /\ left = MaxLifecycle
    /\ Fresh

\* The state after the module was imported with both libraries installed.
Init ==
    /\ aioboto3 = TRUE
    /\ GcpStorage = TRUE
    /\ left = MaxCalls
    /\ Fresh

\* The same, with the call budget of the object store's handles.
InitObjects ==
    /\ aioboto3 = TRUE
    /\ GcpStorage = TRUE
    /\ left = MaxObjectCalls
    /\ Fresh

\* ------------------------------------------------------ create_from_filepath

\* A constructor that already makes the handle's client.
FileSystemEager(cls, filepath, request_payer) ==
    [NoHandle EXCEPT !.cls = cls, !.filepath = filepath,
                     !.request_payer = request_payer,
                     !.client = [id |-> 1, type |-> "httpx.AsyncClient"],
                     !._session = "own"]

\* The dataclass __init__ of a FileSystem subclass: filepath and (S3 only)
\* request_payer from the arguments, ctx a fresh AsyncExitStack, every
\* init=False field left unassigned.
FileSystem(cls, filepath, request_payer) ==
    [NoHandle EXCEPT !.cls = cls, !.filepath = filepath,
                     !.request_payer = request_payer]

\* No constructor checks for its library.
post_init_unchecked(cls) == <<>>

\* S3FileSystem.__post_init__ (inherited by AtlasS3FileSystem) and
\* GcsFileSystem.__post_init__: the message of the failed assert, or <<>>.
post_init(cls) ==
    IF cls \in {"S3FileSystem", "AtlasS3FileSystem"} /\ ~aioboto3 THEN MsgAioboto3
    ELSE IF cls = "GcsFileSystem" /\ ~GcpStorage THEN MsgGcloud
    ELSE <<>>

\* A selection without the atlas branch.
SchemeClassNoAtlas(scheme) ==
    IF scheme \in {http, https} THEN "HttpFileSystem"
    ELSE IF scheme = s3 THEN "S3FileSystem"
    ELSE IF scheme = gs THEN "GcsFileSystem"
    ELSE IF scheme = file THEN "LocalFileSystem"
    ELSE IF scheme # <<>> THEN ""
    ELSE "LocalFileSystem"

\* The class the scheme selects, "" for a scheme that is not supported.
SchemeClass(scheme) ==
    IF scheme \in {http, https} THEN "HttpFileSystem"
    ELSE IF scheme = s3 THEN "S3FileSystem"
    ELSE IF scheme = atlas THEN "AtlasS3FileSystem"
    ELSE IF scheme = gs THEN "GcsFileSystem"
    ELSE IF scheme = file THEN "LocalFileSystem"
    ELSE IF scheme # <<>> THEN ""
    ELSE "LocalFileSystem"

create_from_filepath(filepath) ==
    LET parsed == urlparse(filepath)
        cls    == SchemeClass(parsed.scheme)
    IN  IF cls = ""
        THEN [status |-> "raised", filepath |-> filepath, cls |-> "none",
              exc |-> "ValueError",
              msg |-> <<"'">> \o parsed.scheme \o <<"'">> \o IsNotSupported]
        ELSE IF post_init(cls) # <<>>
        THEN [status |-> "raised", filepath |-> filepath, cls |-> "none",
              exc |-> "AssertionError", msg |-> post_init(cls)]
        ELSE [status |-> "returned", filepath |-> filepath, cls |-> cls,
              exc |-> "none", msg |-> <<>>]

\* request_payer is a keyword of the S3 classes only; the other classes are
\* called with no keyword.
PayerChoices(filepath) ==
    IF urlparse(filepath).scheme \in {s3, atlas} THEN BOOLEAN ELSE {FALSE}

Create(filepath, request_payer) ==
    /\ made.status = "none"
    /\ made' = create_from_filepath(filepath)
    /\ self' = IF made'.status = "returned"
               THEN FileSystem(made'.cls, filepath, request_payer)
               ELSE self
    /\ UNCHANGED <<aioboto3, GcpStorage, live, released, nextId, pos, task,
                   left, phase>>

\* ------------------------------------------------ __aenter__ and __aexit__

InFlight(t) == task[t].pc # "idle"

\* The gets in flight have seen an __aenter__ or __aexit__.
Disturbed == [u \in Tasks |-> IF InFlight(u)
                              THEN [task[u] EXCEPT !.steady = FALSE]
                              ELSE task[u]]

\* The context manager is entered and its exit is not put on the stack.
enter_untracked(ctx, r) == ctx

\* AsyncExitStack.enter_async_context, after the context manager's
\* __aenter__ returned: its __aexit__ is pushed on the stack.
enter_async_context(ctx, r) == Append(ctx, r)

\* The callbacks run in the order they were pushed.
UnwindFifo(ctx) == ctx

\* AsyncExitStack.aclose: the callbacks run last in, first out ...
Unwind(ctx) == [i \in 1 .. Len(ctx) |-> ctx[Len(ctx) + 1 - i]]

\* The callbacks run and stay on the stack.
StackKept(ctx) == ctx

\* ... and are popped as they run: the stack is empty afterwards.
AfterClose(ctx) == <<>>

\* The Atlas handle enters the shared session itself.
ResourceTypeSession(cls) ==
    IF cls = "LocalFileSystem" THEN "file"
    ELSE IF cls = "HttpFileSystem" THEN "httpx.AsyncClient"
    ELSE IF cls = "GcsFileSystem" THEN "GcpStorage"
    ELSE IF cls = "AtlasS3FileSystem" THEN AWS_S3_ASYNC_CLIENT
    ELSE "s3 resource"

\* What each __aenter__ enters: aiofiles.open(...), httpx.AsyncClient(),
\* GcpStorage(), self._session.resource("s3").
ResourceType(cls) ==
    IF cls = "LocalFileSystem" THEN "file"
    ELSE IF cls = "HttpFileSystem" THEN "httpx.AsyncClient"
    ELSE IF cls = "GcsFileSystem" THEN "GcpStorage"
    ELSE "s3 resource"

IsS3(cls) == cls \in {"S3FileSystem", "AtlasS3FileSystem"}

\* The session __aenter__ assigns to _session: a new aioboto3.Session() of
\* the handle's own, or settings.AWS_S3_ASYNC_CLIENT, shared by the process.
SessionOf(cls) ==
    IF cls = "AtlasS3FileSystem" THEN AWS_S3_ASYNC_CLIENT ELSE "own"

\* The bucket is the host of the location for every class.
ObjectBucketHost(cls, filepath) == urlparse(filepath).netloc

\* The arguments of self._resource.Object(...)
ObjectBucket(cls, filepath) ==
    IF cls = "AtlasS3FileSystem" THEN IMAGE_BUCKET_NAME
    ELSE urlparse(filepath).netloc

\* The key keeps the separators at the end of the path.
ObjectKeyLeading(cls, filepath) ==
    IF cls = "AtlasS3FileSystem" THEN urlparse(filepath).path
    ELSE lstrip(urlparse(filepath).path, {"/"})

ObjectKey(cls, filepath) ==
    IF cls = "AtlasS3FileSystem" THEN urlparse(filepath).path
    ELSE strip(urlparse(filepath).path, {"/"})

\* The context manager is entered and put on the stack, and no attribute of
\* the handle is assigned.
EnteredFieldUnset(h, r) == [h EXCEPT !.ctx = enter_async_context(h.ctx, r)]

\* The handle after __aenter__ entered resource r and ran to its end.
Entered(h, r) ==
    LET c == enter_async_context(h.ctx, r) IN
    IF h.cls = "LocalFileSystem" THEN [h EXCEPT !.ctx = c, !.file = r]
    ELSE IF h.cls = "HttpFileSystem" THEN [h EXCEPT !.ctx = c, !.client = r]
    ELSE IF h.cls = "GcsFileSystem"
    THEN [h EXCEPT !.ctx = c, !._client = r,
                   !._bucket = urlparse(h.filepath).netloc,
                   !._objname = strip(urlparse(h.filepath).path, {"/"})]
    ELSE [h EXCEPT !.ctx = c, !._session = SessionOf(h.cls), !._resource = r,
                   !._obj = [res |-> r,
                             bucket |-> ObjectBucket(h.cls, h.filepath),
                             key |-> ObjectKey(h.cls, h.filepath)]]

\* The s3 resource is entered by hand and would be put on the exit stack
\* only once the Object is resolved.
EnteredNoObjectUntracked(h, r) ==
    [h EXCEPT !._session = SessionOf(h.cls), !._resource = r]

\* The handle after S3FileSystem.__aenter__ entered resource r and
\* self._resource.Object(...) raised: _obj is not assigned.
EnteredNoObject(h, r) ==
    [h EXCEPT !.ctx = enter_async_context(h.ctx, r),
              !._session = SessionOf(h.cls), !._resource = r]

\* __aenter__ runs to its end.
Open ==
    /\ self.cls # "none"
    /\ left > 0
    /\ LET r == [id |-> nextId, type |-> ResourceType(self.cls)] IN
         /\ self' = Entered(self, r)
         /\ live' = live \cup {r}
    /\ nextId' = nextId + 1
    /\ pos' = IF self.cls = "LocalFileSystem" THEN 0 ELSE pos
    /\ left' = left - 1
    /\ phase' = "opened"
    /\ task' = Disturbed
    /\ UNCHANGED <<aioboto3, GcpStorage, made, released>>

\* __aenter__ raises while the context manager is being entered (the file
\* does not exist, the task is cancelled): nothing was acquired.  The S3
\* classes have assigned _session by then.
OpenFailsEntering ==
    /\ self.cls # "none"
    /\ left > 0
    /\ self' = IF IsS3(self.cls)
               THEN [self EXCEPT !._session = SessionOf(self.cls)]
               ELSE self
    /\ left' = left - 1
    /\ phase' = "opened"
    /\ task' = Disturbed
    /\ UNCHANGED <<aioboto3, GcpStorage, made, live, released, nextId, pos>>

\* S3FileSystem.__aenter__ and AtlasS3FileSystem.__aenter__ raise in
\* self._resource.Object(...), after the s3 resource was entered.
OpenFailsResolving ==
    /\ IsS3(self.cls)
    /\ left > 0
    /\ LET r == [id |-> nextId, type |-> ResourceType(self.cls)] IN
         /\ self' = EnteredNoObject(self, r)
         /\ live' = live \cup {r}
    /\ nextId' = nextId + 1
    /\ left' = left - 1
    /\ phase' = "opened"
    /\ task' = Disturbed
    /\ UNCHANGED <<aioboto3, GcpStorage, made, released, pos>>

\* FileSystem.__aexit__: await self.ctx.aclose()
Close ==
    /\ self.cls # "none"
    /\ left > 0
    /\ released' = released \o Unwind(self.ctx)
    /\ live' = live \ Range(self.ctx)
    /\ self' = [self EXCEPT !.ctx = AfterClose(self.ctx)]
    /\ left' = left - 1
    /\ phase' = IF phase = "opened" THEN "closed" ELSE "closed again"
    /\ task' = Disturbed
    /\ UNCHANGED <<aioboto3, GcpStorage, made, nextId, pos>>

\* --------------------------------------------------------------------- get

Min(a, b) == IF a < b THEN a ELSE b

\* The resource get goes through: self.file, self.client, self._obj (bound
\* to the s3 resource that made it) or self._client.
Primary(h) ==
    IF h.cls = "LocalFileSystem" THEN h.file
    ELSE IF h.cls = "HttpFileSystem" THEN h.client
    ELSE IF h.cls = "GcsFileSystem" THEN h._client
    ELSE h._obj.res

\* The upper bound is the length, the offset forgotten.
range_header_length(offset, length) ==
    <<"b","y","t","e","s","=">> \o str(offset) \o <<"-">> \o str(length)

\* The upper bound is one byte further.
range_header_beyond(offset, length) ==
    <<"b","y","t","e","s","=">> \o str(offset) \o <<"-">>
        \o str(offset + length + 1)

\* The f-strings of the three range requests.
range_header(offset, length) ==
    <<"b","y","t","e","s","=">> \o str(offset) \o <<"-">> \o str(offset + length)

S3Range(offset, length) ==
    <<"b","y","t","e","s","=">> \o str(offset) \o <<"-">> \o str(offset + length)

GcsRange(offset, length) ==
    <<"b","y","t","e","s","=">> \o str(offset) \o <<"-">> \o str(offset + length)

\* The range is built from the offset of the first caller's get while that
\* one is in flight, as if the offset were kept on the handle.
RequestShared(h, offset, length) ==
    LET o == IF InFlight("t1") THEN task["t1"].offset ELSE offset IN
    IF h.cls = "HttpFileSystem"
    THEN [to |-> "http", range |-> range_header(o, length),
          payer |-> FALSE, bucket |-> <<>>, key |-> h.filepath]
    ELSE IF h.cls = "GcsFileSystem"
    THEN [to |-> "gcs", range |-> GcsRange(o, length),
          payer |-> FALSE, bucket |-> h._bucket, key |-> h._objname]
    ELSE [to |-> "s3", range |-> S3Range(o, length),
          payer |-> h.request_payer, bucket |-> h._obj.bucket,
          key |-> h._obj.key]

\* The request get hands to the client.
Request(h, offset, length) ==
    IF h.cls = "HttpFileSystem"
    THEN [to |-> "http", range |-> range_header(offset, length),
          payer |-> FALSE, bucket |-> <<>>, key |-> h.filepath]
    ELSE IF h.cls = "GcsFileSystem"
    THEN [to |-> "gcs", range |-> GcsRange(offset, length),
          payer |-> FALSE, bucket |-> h._bucket, key |-> h._objname]
    ELSE [to |-> "s3", range |-> S3Range(offset, length),
          payer |-> h.request_payer, bucket |-> h._obj.bucket,
          key |-> h._obj.key]

\* What a call on a file, client or object whose resource was closed does.
\* A closed file raises ValueError, a closed httpx.AsyncClient and a closed
\* aiohttp session (GcpStorage) raise RuntimeError and send nothing.  get has
\* no check of its own, and an s3 Object outlives its resource: whether its
\* client raises or opens a new connection and sends the request is up to
\* the client library.
ClosedOutcomes(cls) ==
    IF cls = "LocalFileSystem" THEN {"ValueError"}
    ELSE IF cls \in {"HttpFileSystem", "GcsFileSystem"} THEN {"RuntimeError"}
    ELSE {"HTTPClientError", "sent"}

\* What get does at its first await: AttributeError when the attribute it
\* reads was never assigned, ClosedOutcomes when the resource is closed,
\* else the seek or the request goes out ("sent").
FirstStep(h, open) ==
    IF Primary(h) = NoRes THEN {"AttributeError"}
    ELSE IF Primary(h) \notin open THEN ClosedOutcomes(h.cls)
    ELSE {"sent"}

Raised(exc) == [kind |-> "raised", bytes |-> <<>>, exc |-> exc]
Returned(b) == [kind |-> "returned", bytes |-> b, exc |-> "none"]

\* Caller t starts a get: the other gets in flight are no longer alone.
\* Only the call that ended last is remembered.
Joined(t, rec) ==
    [u \in Tasks |-> IF u = t THEN rec
                     ELSE IF InFlight(u) THEN [task[u] EXCEPT !.alone = FALSE]
                     ELSE IdleTask]

\* The get of caller t ends.
Ended(t, rec) ==
    [u \in Tasks |-> IF u = t THEN rec
                     ELSE IF InFlight(u) THEN task[u]
                     ELSE IdleTask]

\* get is called and runs to its first await: LocalFileSystem.get seeks,
\* the others send their request; or it raises at once (FirstStep).
GetCall(t, offset, length) ==
    /\ self.cls # "none"
    /\ ~InFlight(t)
    /\ \A u \in Tasks : Earlier(u, t) => InFlight(u)
    /\ left > 0
    /\ left' = left - 1
    /\ LET alone == \A u \in Tasks \ {t} : ~InFlight(u)
           call  == [IdleTask EXCEPT !.offset = offset, !.length = length,
                                     !.called = TRUE,
                                     !.wasOpen = Primary(self) \in live,
                                     !.steady = TRUE, !.alone = alone]
       IN  \E out \in FirstStep(self, live) :
             IF out # "sent"
             THEN /\ task' = Joined(t, [call EXCEPT !.result = Raised(out)])
                  /\ UNCHANGED pos
             ELSE IF self.cls = "LocalFileSystem"
             THEN /\ task' = Joined(t, [call EXCEPT !.pc = "seeked"])
                  /\ pos' = offset
             ELSE /\ task' = Joined(t, [call EXCEPT !.pc = "awaiting", !.sent = 1,
                                           !.req = Request(self, offset, length)])
                  /\ UNCHANGED pos
    /\ UNCHANGED <<aioboto3, GcpStorage, made, self, live, released, nextId,
                   phase>>

\* The read starts at the first byte, wherever the file stands.
read_from_start(p, n) == SubSeq(Data, 1, Min(n, FileSize))

\* file.read(n) at position p: the bytes from p on, n of them or as many as
\* the file still has.
read(p, n) == SubSeq(Data, p + 1, Min(p + n, FileSize))

\* The read asks for length bytes.
ReadSizeExact(length) == length

\* The argument of self.file.read
ReadSize(length) == length + 1

\* The second line of LocalFileSystem.get: the read at the file's position.
LocalRead(t) ==
    /\ task[t].pc = "seeked"
    /\ IF self.file \in live
       THEN LET b == read(pos, ReadSize(task[t].length)) IN
              /\ task' = Ended(t, [task[t] EXCEPT !.pc = "idle", !.sent = 1,
                                                  !.result = Returned(b)])
              /\ pos' = pos + Len(b)
       ELSE /\ task' = Ended(t, [task[t] EXCEPT !.pc = "idle",
                                                !.result = Raised("ValueError")])
            /\ UNCHANGED pos
    /\ UNCHANGED <<aioboto3, GcpStorage, made, self, live, released, nextId,
                   left, phase>>

\* ------------------------------------------------------------ the backends

RECURSIVE int(_)
int(ds) ==
    IF ds = <<>> THEN 0
    ELSE 10 * int(SubSeq(ds, 1, Len(ds) - 1))
         + ((CHOOSE i \in DOMAIN DigitChars : DigitChars[i] = ds[Len(ds)]) - 1)

\* How a server reads a range value: bytes=<first>-<last>, both decimal.
ParseRange(r) ==
    LET dash == FindAny(r, {"-"}, 1)
        a    == SubSeq(r, 7, dash - 1)
        b    == SubSeq(r, dash + 1, Len(r))
        ok   == /\ Len(r) >= 9
                /\ SubSeq(r, 1, 6) = <<"b","y","t","e","s","=">>
                /\ dash > 7
                /\ b # <<>>
                /\ Range(a) \cup Range(b) \subseteq Range(DigitChars)
    IN  IF ok THEN [ok |-> TRUE, first |-> int(a), last |-> int(b)]
        ELSE [ok |-> FALSE, first |-> 0, last |-> 0]

\* The bytes at positions from .. to of the archive, as far as it goes.
Slice(from, to) == SubSeq(Data, from + 1, Min(to + 1, FileSize))

\* The body of an error response.
ErrorBody == <<255>>

\* What an HTTP server may answer to a GET with a Range header: the range
\* (206) or, when it starts past the end, 416; the whole resource (200) when
\* it does not support ranges; a redirect or an error.
HttpResponses(req) ==
    LET r == ParseRange(req.range) IN
    (IF r.ok /\ r.first < FileSize /\ r.first <= r.last
     THEN {[status |-> 206, body |-> Slice(r.first, r.last)]}
     ELSE {[status |-> 416, body |-> ErrorBody]})
    \cup {[status |-> 200, body |-> Data]}
    \cup {[status |-> c, body |-> ErrorBody] : c \in {302, 404}}

\* What the object store and the cloud bucket answer: the range; when it
\* cannot be served the client raises (status 0 here).
StoreResponses(req) ==
    LET r == ParseRange(req.range) IN
    (IF r.ok /\ r.first < FileSize /\ r.first <= r.last
     THEN {[status |-> 206, body |-> Slice(r.first, r.last)]}
     ELSE {})
    \cup {[status |-> 0, body |-> <<>>]}

Responses(req) ==
    IF req.to = "http" THEN HttpResponses(req)
    ELSE IF req.to = "none" THEN {}
    ELSE StoreResponses(req)

\* The status is not looked at.
never_raises(resp) == FALSE

\* httpx.Response.raise_for_status raises unless the status is a success.
raise_for_status(resp) == ~(200 <= resp.status /\ resp.status <= 299)

\* HttpFileSystem.get after the response arrived.
HttpResult(resp) ==
    IF raise_for_status(resp) THEN Raised("HTTPStatusError")
    ELSE Returned(resp.body)

\* S3FileSystem.get and GcsFileSystem.get after the response arrived: the
\* client raised, or the body is read and returned.
StoreResult(resp) ==
    IF resp.status = 0 THEN Raised("ClientError") ELSE Returned(resp.body)

\* The response to the request of get arrives and get ends.
Receive(t, resp) ==
    /\ task[t].pc = "awaiting"
    /\ resp \in Responses(task[t].req)
    /\ task' = Ended(t, [task[t] EXCEPT !.pc = "idle", !.resp = resp,
                                        !.result = IF task[t].req.to = "http"
                                                   THEN HttpResult(resp)
                                                   ELSE StoreResult(resp)])
    /\ UNCHANGED <<aioboto3, GcpStorage, made, self, live, released, nextId,
                   pos, left, phase>>

\* The request fails and get sends it once more.
TransportFailsRetry(t) ==
    /\ task[t].pc = "awaiting"
    /\ task[t].sent < 2
    /\ task' = [task EXCEPT ![t].sent = task[t].sent + 1]
    /\ UNCHANGED <<aioboto3, GcpStorage, made, self, live, released, nextId,
                   pos, left, phase>>

\* The request fails below HTTP (no connection, a timeout): the client
\* raises and get lets it through.
TransportFails(t) ==
    /\ task[t].pc = "awaiting"
    /\ task' = Ended(t, [task[t] EXCEPT !.pc = "idle",
                                        !.result = Raised("TransportError")])
    /\ UNCHANGED <<aioboto3, GcpStorage, made, self, live, released, nextId,
                   pos, left, phase>>

\* The caller cancels a get in flight: CancelledError is raised at its await.
Cancel(t) ==
    /\ InFlight(t)
    /\ task' = Ended(t, [task[t] EXCEPT !.pc = "idle",
                                        !.result = Raised("CancelledError")])
    /\ UNCHANGED <<aioboto3, GcpStorage, made, self, live, released, nextId,
                   pos, left, phase>>

\* ------------------------------------------------------------ specification

\* Construction, __aenter__ and __aexit__ for every location, whatever
\* libraries are installed.
LifecycleNext ==
    \/ \E f \in Locations : \E rp \in PayerChoices(f) : Create(f, rp)
    \/ Open
    \/ OpenFailsEntering
    \/ OpenFailsResolving
    \/ Close

Lifecycle == Imported /\ [][LifecycleNext]_vars

\* The handles of the Archives, with their gets.
Next ==
    \/ \E f \in Archives : \E rp \in PayerChoices(f) : Create(f, rp)
    \/ Open
    \/ OpenFailsEntering
    \/ OpenFailsResolving
    \/ Close
    \/ \E t \in Tasks : \E o \in Offsets : \E l \in Lengths : GetCall(t, o, l)
    \/ \E t \in Tasks : LocalRead(t)
    \/ \E t \in Tasks : \E resp \in Responses(task[t].req) : Receive(t, resp)
    \/ \E t \in Tasks : TransportFails(t)
    \/ \E t \in Tasks : Cancel(t)

Spec == Init /\ [][Next]_vars

\* The handles of the object store, with their gets.
ObjectsNext ==
    \/ \E f \in ObjectLocations : \E rp \in PayerChoices(f) : Create(f, rp)
    \/ Open
    \/ OpenFailsEntering
    \/ OpenFailsResolving
    \/ Close
    \/ \E t \in Tasks : \E o \in Offsets : \E l \in Lengths : GetCall(t, o, l)
    \/ \E t \in Tasks : \E resp \in Responses(task[t].req) : Receive(t, resp)
    \/ \E t \in Tasks : TransportFails(t)
    \/ \E t \in Tasks : Cancel(t)

Objects == InitObjects /\ [][ObjectsNext]_vars

\* The handle used through one "async with handle:" statement.  The
\* statement awaits __aenter__; when that returns the body runs, with its
\* gets, and when the body ends, however it ends, the statement awaits
\* __aexit__.  When __aenter__ raises, the statement is left with that
\* exception: the body does not run and __aexit__ is not called.

\* The body of the statement is running: __aenter__ has returned and
\* __aexit__ was not called yet.
InBody == phase = "opened" /\ Primary(self) \in Range(self.ctx)

\* The body ends and the statement calls __aexit__.
ScopedExit == InBody /\ Close

ScopedNext ==
    \/ \E f \in Archives : \E rp \in PayerChoices(f) : Create(f, rp)
    \/ phase = "new" /\ Open
    \/ phase = "new" /\ OpenFailsEntering
    \/ phase = "new" /\ OpenFailsResolving
    \/ \E t \in Tasks : \E o \in Offsets : \E l \in Lengths :
          InBody /\ left > 1 /\ GetCall(t, o, l)
    \/ \E t \in Tasks : LocalRead(t)
    \/ \E t \in Tasks : \E resp \in Responses(task[t].req) : Receive(t, resp)
    \/ \E t \in Tasks : TransportFails(t)
    \/ \E t \in Tasks : Cancel(t)
    \/ ScopedExit

\* The body of the statement ends at some time, and __aexit__ is called
\* then.
Scoped == Init /\ [][ScopedNext]_vars /\ WF_vars(ScopedExit)

\* ------------------------------------------------------------------ claims

\* The scheme of the location create_from_filepath was called with.
CalledScheme == urlparse(made.filepath).scheme

ReturnedA(cls) == made.status = "returned" /\ self.cls = cls

RaisedNaming(exc, name) ==
    /\ made.status = "raised"
    /\ made.exc = exc
    /\ self = NoHandle
    /\ Contains(made.msg, name)

\* C1 as claimed: create_from_filepath returns an HttpFileSystem for http
\* and https, an S3FileSystem for s3, an AtlasS3FileSystem for atlas, a
\* GcsFileSystem for gs, a LocalFileSystem for file and for no scheme, and
\* for any other scheme returns no handle and raises an error whose message
\* contains the scheme.
C1_AsClaimed ==
    made.status # "none" =>
        /\ CalledScheme \in {http, https} => ReturnedA("HttpFileSystem")
        /\ CalledScheme = s3 => ReturnedA("S3FileSystem")
        /\ CalledScheme = atlas => ReturnedA("AtlasS3FileSystem")
        /\ CalledScheme = gs => ReturnedA("GcsFileSystem")
        /\ CalledScheme \in {file, <<>>} => ReturnedA("LocalFileSystem")
        /\ CalledScheme \notin {http, https, s3, atlas, gs, file, <<>>}
               => RaisedNaming("ValueError", CalledScheme)

\* C1, amended: the same, except that s3 and atlas yield their handle only
\* when aioboto3 was imported and gs only when gcloud-aio-storage was; when
\* the library is missing the constructor's assert fails, no handle is
\* returned and the message names the library.
C1_Selection ==
    made.status # "none" =>
        /\ CalledScheme \in {http, https} => ReturnedA("HttpFileSystem")
        /\ CalledScheme = s3 /\ aioboto3 => ReturnedA("S3FileSystem")
        /\ CalledScheme = atlas /\ aioboto3 => ReturnedA("AtlasS3FileSystem")
        /\ CalledScheme \in {s3, atlas} /\ ~aioboto3
               => RaisedNaming("AssertionError",
                               <<"a","i","o","b","o","t","o","3">>)
        /\ CalledScheme = gs /\ GcpStorage => ReturnedA("GcsFileSystem")
        /\ CalledScheme = gs /\ ~GcpStorage
               => RaisedNaming("AssertionError",
                               <<"g","c","l","o","u","d","-","a","i","o","-",
                                 "s","t","o","r","a","g","e">>)
        /\ CalledScheme \in {file, <<>>} => ReturnedA("LocalFileSystem")
        /\ CalledScheme \notin {http, https, s3, atlas, gs, file, <<>>}
               => RaisedNaming("ValueError", CalledScheme)

\* ftp://h/a was refused with a message that contains ftp.
C1_Witness ==
    /\ made.filepath = <<"f","t","p",":","/","/","h","/","a">>
    /\ made.status = "raised"
    /\ made.exc = "ValueError"
    /\ Contains(made.msg, <<"f","t","p">>)

\* The handle holds nothing: no attribute assigned, the exit stack empty.
Unopened(h) ==
    /\ h.ctx = <<>>
    /\ h.file = NoRes
    /\ h.client = NoRes
    /\ h._session = "unset"
    /\ h._resource = NoRes
    /\ h._obj = NoObj
    /\ h._client = NoRes
    /\ h._bucket = UnsetStr
    /\ h._objname = UnsetStr

\* C2: the handle create_from_filepath returns is not opened: as long as
\* neither __aenter__ nor __aexit__ was called it holds no file, client,
\* session or object reference, its exit stack is empty, no resource was
\* opened or released and no request went out.
C2_NoIO ==
    made.status = "returned" /\ phase = "new" =>
        /\ Unopened(self)
        /\ live = {}
        /\ released = <<>>
        /\ nextId = 1
        /\ \A t \in Tasks : task[t].sent = 0

\* A GcsFileSystem was returned and nothing was called on it yet.
C2_Witness ==
    /\ made.status = "returned"
    /\ self.cls = "GcsFileSystem"
    /\ phase = "new"
    /\ left = MaxLifecycle

\* The get of caller t has ended.
Done(t) == task[t].called /\ task[t].pc = "idle"

\* The result holds at most length + 1 bytes, those at offset, offset + 1,
\* ... of the archive.
FromOffset(t) ==
    /\ Len(task[t].result.bytes) <= task[t].length + 1
    /\ \A i \in 1 .. Len(task[t].result.bytes) :
           /\ task[t].offset + i <= FileSize
           /\ task[t].result.bytes[i] = Data[task[t].offset + i]

\* C3: a get on an open LocalFileSystem, with no other get in flight and
\* not cancelled, returns the bytes at positions offset .. min(offset +
\* length, FileSize - 1): length + 1 of them when the file has that many
\* left, fewer or none otherwise; it does not raise.
C3_LocalRange ==
    \A t \in Tasks :
        ( /\ self.cls = "LocalFileSystem"
          /\ Done(t)
          /\ task[t].wasOpen /\ task[t].steady /\ task[t].alone
          /\ task[t].result.exc # "CancelledError" )
        => LET o  == task[t].offset
               hi == Min(o + task[t].length, FileSize - 1)
               n  == IF hi >= o THEN hi - o + 1 ELSE 0
           IN  /\ task[t].result.kind = "returned"
               /\ Len(task[t].result.bytes) = n
               /\ \A i \in 1 .. n : task[t].result.bytes[i] = Data[o + i]

\* A get of the last byte and more returned the last byte alone.
C3_Witness ==
    \E t \in Tasks :
        /\ self.cls = "LocalFileSystem"
        /\ Done(t)
        /\ task[t].wasOpen /\ task[t].steady /\ task[t].alone
        /\ task[t].offset = FileSize - 1
        /\ task[t].length = MaxLength
        /\ task[t].result.kind = "returned"
        /\ Len(task[t].result.bytes) = 1

NumDigits(n) == IF n < 10 THEN 1 ELSE IF n < 100 THEN 2 ELSE 3

\* C4: the range value a get sends reads bytes=<offset>-<offset+length>:
\* the prefix bytes=, the decimal digits of offset, a dash, the decimal
\* digits of offset + length and nothing else; HttpFileSystem sends it to
\* the HTTP server, GcsFileSystem to the bucket, the S3 classes to the
\* object store.
C4_RangeValue ==
    \A t \in Tasks :
        task[t].req.to # "none" =>
            LET r == task[t].req.range
                p == ParseRange(r)
            IN  /\ p.ok
                /\ p.first = task[t].offset
                /\ p.last = task[t].offset + task[t].length
                /\ Len(r) = 7 + NumDigits(task[t].offset)
                              + NumDigits(task[t].offset + task[t].length)
                /\ task[t].req.to = ( IF self.cls = "HttpFileSystem" THEN "http"
                                      ELSE IF self.cls = "GcsFileSystem" THEN "gcs"
                                      ELSE "s3" )

\* An AtlasS3FileSystem sent the range of the far offset and the largest
\* length.
C4_Witness ==
    \E t \in Tasks :
        /\ self.cls = "AtlasS3FileSystem"
        /\ task[t].req.to = "s3"
        /\ task[t].offset = FarOffset
        /\ task[t].length = MaxLength

\* C5 as claimed: a get on an open HttpFileSystem that returns, returns at
\* most length + 1 bytes and they start at byte offset of the resource,
\* whatever success response the server gave.
C5_AsClaimed ==
    \A t \in Tasks :
        ( /\ self.cls = "HttpFileSystem"
          /\ Done(t)
          /\ task[t].wasOpen
          /\ task[t].result.kind = "returned" )
        => FromOffset(t)

\* C5, amended: a get on an open HttpFileSystem that returns, returns the
\* body of the response as it is; the result has at most length + 1 bytes
\* and starts at byte offset when the server answered 206 with the range
\* asked for.
C5_ResponseBody ==
    \A t \in Tasks :
        ( /\ self.cls = "HttpFileSystem"
          /\ Done(t)
          /\ task[t].wasOpen
          /\ task[t].result.kind = "returned" )
        => /\ task[t].result.bytes = task[t].resp.body
           /\ task[t].resp.status = 206 => FromOffset(t)

\* A 206 response to a range that runs past the end was returned.
C5_Witness ==
    \E t \in Tasks :
        /\ self.cls = "HttpFileSystem"
        /\ Done(t)
        /\ task[t].wasOpen
        /\ task[t].resp.status = 206
        /\ task[t].offset = FileSize - 1
        /\ task[t].length = MaxLength
        /\ task[t].result = Returned(<<Data[FileSize]>>)

\* C6: when the server answers a get of HttpFileSystem with a status that
\* is not a success, the get raises and returns no bytes.
C6_StatusRaises ==
    \A t \in Tasks :
        ( /\ task[t].req.to = "http"
          /\ Done(t)
          /\ task[t].resp.status # 0
          /\ ~(200 <= task[t].resp.status /\ task[t].resp.status <= 299) )
        => /\ task[t].result.kind = "raised"
           /\ task[t].result.exc = "HTTPStatusError"
           /\ task[t].result.bytes = <<>>

\* A 404 was raised to the caller.
C6_Witness ==
    \E t \in Tasks :
        /\ task[t].req.to = "http"
        /\ task[t].resp.status = 404
        /\ task[t].result = Raised("HTTPStatusError")

AfterClose_ == phase \in {"closed", "closed again"}

\* C7: once __aexit__ has run, whatever the gets before it did, nothing is
\* open: every resource an __aenter__ acquired was released, the exit stack
\* is empty and the file, client or object of the handle is closed.
C7_CloseReleases ==
    AfterClose_ =>
        /\ live = {}
        /\ self.ctx = <<>>
        /\ Primary(self) \notin live
        /\ \A id \in 1 .. (nextId - 1) : \E i \in DOMAIN released : released[i].id = id

\* The handle was opened, a get was cancelled in flight, and it was closed.
C7_Witness ==
    /\ phase = "closed"
    /\ released # <<>>
    /\ \E t \in Tasks : task[t].result.exc = "CancelledError"

\* C8: __aexit__ on a handle that is closed or was never opened changes
\* nothing: the handle is as before, nothing is released again.
C8_Idempotent ==
    [][ (Close /\ phase # "opened")
        => (self' = self /\ live' = live /\ released' = released) ]_vars

\* __aexit__ ran on a handle whose resources had been released before.
C8_Witness ==
    /\ phase = "closed again"
    /\ released # <<>>

\* The last assignment of _resource was not followed by the assignment of
\* _obj: __aenter__ raised in self._resource.Object(...).
PartlyOpened(h) ==
    /\ IsS3(h.cls)
    /\ h._resource # NoRes
    /\ h._obj.res # h._resource

\* C9: when __aenter__ of an S3 class raised after it entered the s3
\* resource, the resource is on the exit stack while it is open, and after
\* the next __aexit__ it is released.
C9_PartialOpen ==
    PartlyOpened(self) =>
        /\ self._resource \in live => self._resource \in Range(self.ctx)
        /\ AfterClose_ => /\ self._resource \notin live
                          /\ self._resource \in Range(released)

\* An S3FileSystem whose __aenter__ raised in Object(...) was closed.
C9_Witness ==
    /\ self.cls = "S3FileSystem"
    /\ PartlyOpened(self)
    /\ phase = "closed"
    /\ self._resource \in Range(released)

\* C10 as claimed: a get on a handle that is not open (never opened, or
\* closed) raises, returns no bytes and sends no request.
C10_AsClaimed ==
    \A t \in Tasks :
        task[t].called /\ ~task[t].wasOpen =>
            /\ task[t].pc = "idle"
            /\ task[t].sent = 0
            /\ task[t].req = NoReq
            /\ task[t].result.kind = "raised"

\* The handle is between an __aenter__ that returned and the next __aexit__:
\* the resource its get goes through is on the exit stack.
IsOpen == Primary(self) \in Range(self.ctx)

C12_SharedPosition ==
    [][ \A t \in Tasks :
          /\ (task[t].pc = "idle" /\ task'[t].pc = "seeked")
                 => pos' = task'[t].offset
          /\ ( /\ task[t].pc = "seeked"
               /\ task'[t].pc = "idle"
               /\ task'[t].result.kind = "returned" )
                 => task'[t].result.bytes = Slice(pos, pos + task[t].length)
      ]_vars

\* Another get's seek ran between the seek and the read of a get on an open
\* LocalFileSystem, and the get returned bytes that do not start at its own
\* offset.
C12_Witness ==
    \E t \in Tasks :
        /\ self.cls = "LocalFileSystem"
        /\ Done(t)
        /\ task[t].wasOpen /\ task[t].steady /\ ~task[t].alone
        /\ task[t].offset < FileSize
        /\ task[t].result.kind = "returned"
        /\ task[t].result.bytes # <<>>
        /\ task[t].result.bytes[1] # Data[task[t].offset + 1]

\* The request of caller t is the one of its own arguments, and what its
\* get returned or raised comes from a response to that request.
OwnRequest(t) ==
    LET o == task[t].offset
        l == task[t].length
    IN  /\ task[t].req.range =
               <<"b","y","t","e","s","=">> \o str(o) \o <<"-">> \o str(o + l)
        /\ task[t].steady => task[t].req = Request(self, o, l)
        /\ (Done(t) /\ task[t].result.kind = "returned")
               => /\ task[t].resp \in Responses(task[t].req)
                  /\ task[t].result.bytes = task[t].resp.body
        /\ (Done(t) /\ task[t].result.exc \in {"HTTPStatusError", "ClientError"})
               => task[t].resp \in Responses(task[t].req)

\* C13: on an HttpFileSystem, S3FileSystem, AtlasS3FileSystem or
\* GcsFileSystem, whatever other gets are in flight, the request of every
\* get carries the range of its own offset and length, it is made of the
\* handle's fields and the call's arguments alone (the handle being as it
\* was when get was called, unless __aenter__ or __aexit__ ran meanwhile),
\* and the get returns the response to that request.
C13_RequestScoped ==
    \A t \in Tasks : task[t].req.to # "none" => OwnRequest(t)

\* Two gets with different offsets were in flight together on an open
\* GcsFileSystem and one of them has returned.
C13_Witness ==
    \E t, u \in Tasks :
        /\ self.cls = "GcsFileSystem"
        /\ Done(t)
        /\ task[t].wasOpen /\ ~task[t].alone
        /\ task[t].result.kind = "returned"
        /\ task[u].pc = "awaiting"
        /\ task[u].offset # task[t].offset

\* Everything the handle entered, holds open or released.
Touched == Range(self.ctx) \cup live \cup Range(released)

C15_ConstructionFails ==
    /\ (made.status # "none" /\ CalledScheme \in {s3, atlas} /\ ~aioboto3)
           => RaisedNaming("AssertionError", <<"a","i","o","b","o","t","o","3">>)
    /\ (made.status # "none" /\ CalledScheme = gs /\ ~GcpStorage)
           => RaisedNaming("AssertionError",
                           <<"g","c","l","o","u","d","-","a","i","o","-",
                             "s","t","o","r","a","g","e">>)
    /\ IsS3(self.cls) => aioboto3
    /\ self.cls = "GcsFileSystem" => GcpStorage
    /\ made.status = "raised"
           => (self = NoHandle /\ phase = "new" /\ live = {} /\ nextId = 1)

\* atlas://x/k was refused for the missing aioboto3 while gcloud-aio-storage
\* is installed.
C15_Witness ==
    /\ ~aioboto3
    /\ GcpStorage
    /\ made.filepath = <<"a","t","l","a","s",":","/","/","x","/","k">>
    /\ made.status = "raised"
    /\ made.msg = MsgAioboto3

\* The path without its first character when that is the separator.
LeadingRemoved(path) ==
    IF path # <<>> /\ Head(path) = "/" THEN Tail(path) ELSE path

Slashes(n) == [i \in 1 .. n |-> "/"]

\* key is path without the separators it starts and ends with.
IsStripped(key, path) ==
    /\ \E i, j \in 0 .. Len(path) : path = Slashes(i) \o key \o Slashes(j)
    /\ key # <<>> => (Head(key) # "/" /\ key[Len(key)] # "/")

\* The handle is an S3FileSystem whose __aenter__ has resolved its object.
S3Resolved == self.cls = "S3FileSystem" /\ self._obj # NoObj

\* C16 as claimed: an opened S3FileSystem has resolved the bucket named by
\* the host of its location and the key that is the path without its
\* leading separator, and its gets go to that bucket and key.
C16_AsClaimed ==
    S3Resolved =>
        LET u == urlparse(self.filepath) IN
        /\ self._obj.bucket = u.netloc
        /\ self._obj.key = LeadingRemoved(u.path)
        /\ \A t \in Tasks : task[t].req.to = "s3" =>
               /\ task[t].req.bucket = u.netloc
               /\ task[t].req.key = LeadingRemoved(u.path)

\* C16, amended: the key is the path without any of the separators it
\* starts with and ends with; s3://b/k.e gives bucket b and key k.e.
C16_Resolution ==
    S3Resolved =>
        LET u == urlparse(self.filepath) IN
        /\ self._obj.bucket = u.netloc
        /\ IsStripped(self._obj.key, u.path)
        /\ \A t \in Tasks : task[t].req.to = "s3" =>
               /\ task[t].req.bucket = self._obj.bucket
               /\ task[t].req.key = self._obj.key
        /\ self.filepath = <<"s","3",":","/","/","b","/","k",".","e">>
               => (self._obj.bucket = <<"b">> /\ self._obj.key = <<"k",".","e">>)

\* A get on the handle of s3://b/k/ went to bucket b, key k.
C16_Witness ==
    /\ self.cls = "S3FileSystem"
    /\ self.filepath = <<"s","3",":","/","/","b","/","k","/">>
    /\ \E t \in Tasks : /\ task[t].req.to = "s3"
                         /\ task[t].req.bucket = <<"b">>
                         /\ task[t].req.key = <<"k">>

\* The handle is an AtlasS3FileSystem whose __aenter__ has resolved its
\* object.
AtlasResolved == self.cls = "AtlasS3FileSystem" /\ self._obj # NoObj

\* The same handle as an S3FileSystem, holding the same resolved object.
AsS3FileSystem == [self EXCEPT !.cls = "S3FileSystem"]

\* C17: an opened AtlasS3FileSystem has resolved the bucket of the settings,
\* whatever the host of its location (atlas://x/k and atlas://y/k resolve
\* the same object), and the key that is the path of the location; its get
\* sends what S3FileSystem.get sends for the same object: the range of its
\* offset and length and the requester-pays flag of the handle.
C17_AtlasResolution ==
    AtlasResolved =>
        LET u == urlparse(self.filepath) IN
        /\ self._obj.bucket = IMAGE_BUCKET_NAME
        /\ self._obj.key = u.path
        /\ self.filepath \in { <<"a","t","l","a","s",":","/","/","x","/","k">>,
                                <<"a","t","l","a","s",":","/","/","y","/","k">> }
               => self._obj.key = <<"/","k">>
        /\ \A t \in Tasks : task[t].req.to = "s3" =>
               /\ task[t].req.bucket = IMAGE_BUCKET_NAME
               /\ task[t].req.key = u.path
               /\ task[t].req.payer = self.request_payer
               /\ task[t].req = Request(AsS3FileSystem, task[t].offset,
                                        task[t].length)

\* A get with the requester-pays flag on the handle of atlas://y/k went to
\* the bucket of the settings.
C17_Witness ==
    /\ self.cls = "AtlasS3FileSystem"
    /\ urlparse(self.filepath).netloc = <<"y">>
    /\ self.request_payer
    /\ \E t \in Tasks : /\ task[t].req.to = "s3"
                         /\ task[t].req.payer
                         /\ task[t].req.bucket = IMAGE_BUCKET_NAME
                         /\ task[t].req.key = <<"/","k">>

\* C18: a get issues one range read and no more: a request that is out was
\* sent once; a get that returned bytes issued one read; a get whose read
\* failed (the client raised, the server answered with an error status)
\* issued that one read, raised the failure and returned nothing.
C18_OneRead ==
    \A t \in Tasks :
        /\ task[t].sent <= 1
        /\ task[t].req.to # "none" => task[t].sent = 1
        /\ (Done(t) /\ task[t].result.kind = "returned") => task[t].sent = 1
        /\ ( /\ Done(t)
             /\ task[t].result.exc \in {"TransportError", "ClientError",
                                         "HTTPStatusError"} )
               => /\ task[t].sent = 1
                  /\ task[t].result.kind = "raised"
                  /\ task[t].result.bytes = <<>>

\* The request of a get on an open S3FileSystem failed in the client and the
\* get raised that failure, one request sent.
C18_Witness ==
    \E t \in Tasks :
        /\ self.cls = "S3FileSystem"
        /\ Done(t)
        /\ task[t].wasOpen
        /\ task[t].result = Raised("TransportError")
        /\ task[t].sent = 1

\* C19 as claimed: under the "async with" statement every resource that was
\* entered is released in the end, also when __aenter__ raised after it had
\* entered the resource.
C19_AsClaimed == (live # {}) ~> (live = {})

\* The handle as its constructor made it.
AsConstructed == FileSystem(self.cls, self.filepath, self.request_payer)

\* C20: the exit stack holds every resource the __aenter__ calls since the
\* last __aexit__ acquired, each once; __aexit__ releases them all, last
\* acquired first, and leaves none live and the stack empty; an __aenter__
\* that returns on a handle whose stack is empty leaves the handle as the
\* same __aenter__ leaves a newly constructed one, whatever was opened and
\* closed on it before.
C20_StackTracks ==
    /\ [](live = Range(self.ctx) /\ Cardinality(live) = Len(self.ctx))
    /\ [][ Close =>
             /\ Len(released') = Len(released) + Len(self.ctx)
             /\ \A i \in 1 .. Len(self.ctx) :
                    released'[Len(released) + i] = self.ctx[Len(self.ctx) + 1 - i]
             /\ live' = {}
             /\ self'.ctx = <<>> ]_vars
    /\ [][ (Open /\ self.ctx = <<>>) =>
             LET r == [id |-> nextId, type |-> ResourceType(self.cls)] IN
             /\ self' = Entered(AsConstructed, r)
             /\ live' = {r}
             /\ self.cls = "LocalFileSystem" => pos' = 0 ]_vars

\* A handle was opened twice, closed once, which released the second
\* resource and then the first, and opened again.
C20_Witness ==
    /\ phase = "opened"
    /\ Len(released) = 2
    /\ released[1].id = 2
    /\ released[2].id = 1
    /\ live = {Primary(self)}
    /\ Primary(self).id = 3

====
